---------------------------- MODULE Spec2Model ----------------------------
(***************************************************************************)
(* The Finisher: the lyric-generation form of react-frontend/src/App.js,   *)
(* the generation endpoint it calls, the checkout call, and the            *)
(* subscription catalog of package.json.                                   *)
(*                                                                         *)
(* Text is a sequence of one-character strings, so that trimming, number   *)
(* parsing and concatenation are computed character by character.          *)
(* A character outside printable ASCII is written as one element holding   *)
(* its escape, "\\u00A0" for U+00A0.                                        *)
(* A JavaScript / JSON value is a record [t, n, d, s]: t is its type tag,  *)
(* s its text (strings), and a number is the exact decimal n / 10^d with   *)
(* d = 0 or n not a multiple of 10; Infinity has n = 1 or -1 for its sign. *)
(* Numbers are exact: the model covers numeric texts whose value has at    *)
(* most nine significant digits and at most six decimal places, where the  *)
(* language's doubles print and compare as the exact decimals do.          *)
(***************************************************************************)
EXTENDS Integers, Sequences, FiniteSets, TLC

VARIABLES
    form,       \* App: useState form {genre, bpm, mood, theme}
    loading,    \* App: useState loading
    lyrics,     \* App: useState lyrics (the displayed output)
    calls,      \* App: the generate() invocations and where each one stands
    subs,       \* App: the subscribe() invocations and where each one stands
    location,   \* window.location.href once subscribe navigated, else <<>>
    alerts,     \* the alert() messages shown so far
    edits,      \* number of form edits made (bounded by MaxEdits)
    clock,      \* backend: the server's clock, source of the timestamp
    served,     \* backend: the log of (request, lyrics) answered so far
    raw,        \* backend / registry: the input of the operation under test
    out,        \* backend / registry: the result of the operation under test
    plansPage,  \* the plans page (App with useState plans, error) and its view
    planList    \* the SubscriptionPlans component (useState plans) and its view

vars == <<form, loading, lyrics, calls, subs, location, alerts, edits,
          clock, served, raw, out, plansPage, planList>>

(***************************************************************************)
(* Bounds of the model.                                                    *)
(***************************************************************************)
MaxEdits == 2
MaxCalls == 2
MaxSubs == 2
MaxClock == 3

(***************************************************************************)
(* Text.                                                                   *)
(***************************************************************************)
Empty == << >>

Digits == <<"0", "1", "2", "3", "4", "5", "6", "7", "8", "9">>

DigitChars == {Digits[i] : i \in 1..10}

\* The characters String.prototype.trim and StringToNumber strip: the
\* WhiteSpace and LineTerminator code points of the language.
WhiteSpace ==
    {"\t", "\n", "\\u000B", "\f", "\r", " ", "\\u00A0", "\\u1680",
     "\\u2000", "\\u2001", "\\u2002", "\\u2003", "\\u2004", "\\u2005",
     "\\u2006", "\\u2007", "\\u2008", "\\u2009", "\\u200A",
     "\\u2028", "\\u2029", "\\u202F", "\\u205F", "\\u3000", "\\uFEFF"}

DigitValue(c) == (CHOOSE i \in 1..10 : Digits[i] = c) - 1

RECURSIVE TrimStart(_)
TrimStart(s) ==
    IF s = Empty THEN Empty
    ELSE IF Head(s) \in WhiteSpace THEN TrimStart(Tail(s))
    ELSE s

RECURSIVE TrimEnd(_)
TrimEnd(s) ==
    IF s = Empty THEN Empty
    ELSE IF s[Len(s)] \in WhiteSpace THEN TrimEnd(SubSeq(s, 1, Len(s) - 1))
    ELSE s

Trim(s) == TrimEnd(TrimStart(s))

IsDigits(s) == s # Empty /\ \A i \in 1..Len(s) : s[i] \in DigitChars

RECURSIVE DigitsValue(_)
DigitsValue(s) ==
    IF s = Empty THEN 0
    ELSE 10 * DigitsValue(SubSeq(s, 1, Len(s) - 1)) + DigitValue(s[Len(s)])

RECURSIVE NatToString(_)
NatToString(n) ==
    IF n < 10 THEN <<Digits[n + 1]>>
    ELSE NatToString(n \div 10) \o <<Digits[(n % 10) + 1]>>

IntToString(n) == IF n < 0 THEN <<"-">> \o NatToString(-n) ELSE NatToString(n)

RECURSIVE Pow(_, _)
Pow(b, k) == IF k <= 0 THEN 1 ELSE b * Pow(b, k - 1)

\* The first position of s that holds a character of set, or 0.
RECURSIVE IndexOf(_, _, _)
IndexOf(s, set, i) ==
    IF i > Len(s) THEN 0
    ELSE IF s[i] \in set THEN i
    ELSE IndexOf(s, set, i + 1)

\* k zeros.
Zeros(k) == [i \in 1..k |-> "0"]

HexDigits ==
    <<"0", "1", "2", "3", "4", "5", "6", "7", "8", "9", "a", "b", "c", "d", "e", "f">>

UpperHexDigits ==
    <<"0", "1", "2", "3", "4", "5", "6", "7", "8", "9", "A", "B", "C", "D", "E", "F">>

\* The value of a digit of radix 2, 8 or 16, or 16 for any other character.
RadixDigitValue(c) ==
    IF \E i \in 1..16 : HexDigits[i] = c \/ UpperHexDigits[i] = c
    THEN (CHOOSE i \in 1..16 : HexDigits[i] = c \/ UpperHexDigits[i] = c) - 1
    ELSE 16

IsRadixDigits(s, radix) ==
    s # Empty /\ \A i \in 1..Len(s) : RadixDigitValue(s[i]) < radix

RECURSIVE RadixValue(_, _)
RadixValue(s, radix) ==
    IF s = Empty THEN 0
    ELSE radix * RadixValue(SubSeq(s, 1, Len(s) - 1), radix) + RadixDigitValue(s[Len(s)])

(***************************************************************************)
(* JavaScript values.                                                      *)
(***************************************************************************)
JsNum(n) == [t |-> "number", n |-> n, d |-> 0, s |-> Empty]
JsStr(s) == [t |-> "string", n |-> 0, d |-> 0, s |-> s]
JsNaN == [t |-> "NaN", n |-> 0, d |-> 0, s |-> Empty]
JsNull == [t |-> "null", n |-> 0, d |-> 0, s |-> Empty]
JsUndefined == [t |-> "undefined", n |-> 0, d |-> 0, s |-> Empty]
JsInfinity(sign) == [t |-> "Infinity", n |-> sign, d |-> 0, s |-> Empty]

\* The number n / 10^d (d may be negative), in its one representation.
RECURSIVE JsDec(_, _)
JsDec(n, d) ==
    IF d < 0 THEN JsNum(n * Pow(10, 0 - d))
    ELSE IF d > 0 /\ n % 10 = 0 THEN JsDec(n \div 10, d - 1)
    ELSE [t |-> "number", n |-> n, d |-> d, s |-> Empty]

InfinityText == <<"I", "n", "f", "i", "n", "i", "t", "y">>

\* ExponentPart: e or E, an optional sign, decimal digits.
IsExponentPart(s) ==
    /\ s # Empty /\ Head(s) \in {"e", "E"}
    /\ \/ IsDigits(Tail(s))
       \/ Tail(s) # Empty /\ Head(Tail(s)) \in {"+", "-"} /\ IsDigits(Tail(Tail(s)))

ExponentValue(s) ==
    IF s = Empty THEN 0
    ELSE IF Head(Tail(s)) = "-" THEN 0 - DigitsValue(Tail(Tail(s)))
    ELSE IF Head(Tail(s)) = "+" THEN DigitsValue(Tail(Tail(s)))
    ELSE DigitsValue(Tail(s))

\* The parts of an unsigned decimal text: the digits before the point, the
\* digits after it, whether it has a point, and its exponent part.
DecimalParts(s) ==
    LET e == IndexOf(s, {"e", "E"}, 1)
        m == IF e = 0 THEN s ELSE SubSeq(s, 1, e - 1)
        p == IndexOf(m, {"."}, 1)
    IN  [int |-> IF p = 0 THEN m ELSE SubSeq(m, 1, p - 1),
         frac |-> IF p = 0 THEN Empty ELSE SubSeq(m, p + 1, Len(m)),
         point |-> p # 0,
         exp |-> IF e = 0 THEN Empty ELSE SubSeq(s, e, Len(s))]

\* StrUnsignedDecimalLiteral other than Infinity: digits, an optional point
\* and digits on either side of it (at least one digit), an optional exponent.
IsUnsignedDecimal(s) ==
    LET q == DecimalParts(s) IN
    /\ q.int \o q.frac # Empty
    /\ \A i \in 1..Len(q.int) : q.int[i] \in DigitChars
    /\ \A i \in 1..Len(q.frac) : q.frac[i] \in DigitChars
    /\ q.exp = Empty \/ IsExponentPart(q.exp)

UnsignedDecimalValue(s) ==
    LET q == DecimalParts(s) IN
    JsDec(DigitsValue(q.int \o q.frac), Len(q.frac) - ExponentValue(q.exp))

Negate(v) == [v EXCEPT !.n = 0 - v.n]

\* The radix of a text that starts with 0x, 0o or 0b (either case), or 0.
RadixOf(s) ==
    IF Len(s) < 2 \/ s[1] # "0" THEN 0
    ELSE CASE s[2] \in {"x", "X"} -> 16
           [] s[2] \in {"o", "O"} -> 8
           [] s[2] \in {"b", "B"} -> 2
           [] OTHER -> 0

\* StringToNumber: strip white space; the empty string is 0; then a
\* hexadecimal, octal or binary integer literal, or an optionally signed
\* Infinity or decimal literal with optional fraction and exponent;
\* anything else is NaN.
StringToNumber(s) ==
    LET t == Trim(s)
        u == IF t # Empty /\ Head(t) \in {"+", "-"} THEN Tail(t) ELSE t
        minus == t # Empty /\ Head(t) = "-"
    IN
    IF t = Empty THEN JsNum(0)
    ELSE IF RadixOf(t) # 0
    THEN IF IsRadixDigits(SubSeq(t, 3, Len(t)), RadixOf(t))
         THEN JsNum(RadixValue(SubSeq(t, 3, Len(t)), RadixOf(t)))
         ELSE JsNaN
    ELSE IF u = InfinityText THEN JsInfinity(IF minus THEN 0 - 1 ELSE 1)
    ELSE IF IsUnsignedDecimal(u)
    THEN IF minus THEN Negate(UnsignedDecimalValue(u)) ELSE UnsignedDecimalValue(u)
    ELSE JsNaN

\* Number(v)
ToNumber(v) ==
    CASE v.t \in {"number", "Infinity"} -> v
      [] v.t = "string" -> StringToNumber(v.s)
      [] v.t = "null" -> JsNum(0)
      [] OTHER -> JsNaN

\* Number::toString of a number of at most six decimal places: the integer
\* part, and after a point the decimal places, none of them dropped.
NumberToString(v) ==
    LET a == IF v.n < 0 THEN 0 - v.n ELSE v.n
        sign == IF v.n < 0 THEN <<"-">> ELSE Empty
        frac == NatToString(a % Pow(10, v.d))
    IN  IF v.d = 0 THEN IntToString(v.n)
        ELSE sign \o NatToString(a \div Pow(10, v.d)) \o <<".">>
             \o Zeros(v.d - Len(frac)) \o frac

\* ToString(v) of the language, as the + operator applies it to a non-string operand.
JsToString(v) ==
    CASE v.t = "string" -> v.s
      [] v.t = "number" -> NumberToString(v)
      [] v.t = "Infinity" -> IF v.n < 0 THEN <<"-">> \o InfinityText ELSE InfinityText
      [] v.t = "NaN" -> <<"N", "a", "N">>
      [] v.t = "null" -> <<"n", "u", "l", "l">>
      [] OTHER -> <<"u", "n", "d", "e", "f", "i", "n", "e", "d">>

\* JSON.stringify of one property value: NaN and Infinity are written as
\* null.
JsonValue(v) == IF v.t \in {"NaN", "Infinity"} THEN JsNull ELSE v

(***************************************************************************)
(* The string literals of App.js.                                          *)
(***************************************************************************)
HipHop ==
    <<"h", "i", "p", "-", "h", "o", "p">>

Energetic ==
    <<"e", "n", "e", "r", "g", "e", "t", "i", "c">>

Love ==
    <<"l", "o", "v", "e">>

Generating ==
    <<"G", "e", "n", "e", "r", "a", "t", "i", "n", "g", ".", ".", ".">>

\* The element "\\u2014" stands for the one character U+2014 (em dash).
FailedToGenerate ==
    <<"F", "a", "i", "l", "e", "d", " ", "t", "o", " ", "g", "e", "n", "e",
      "r", "a", "t", "e", " ", "l", "y", "r", "i", "c", "s", " ", "\\u2014", " ",
      "i", "s", " ", "t", "h", "e", " ", "b", "a", "c", "k", "e", "n", "d",
      " ", "r", "u", "n", "n", "i", "n", "g", "?">>

FailedCheckout ==
    <<"F", "a", "i", "l", "e", "d", " ", "t", "o", " ", "c", "r", "e", "a",
      "t", "e", " ", "c", "h", "e", "c", "k", "o", "u", "t", " ", "s", "e",
      "s", "s", "i", "o", "n">>

\* Mutant: a single line break.
BlankLine_Single ==
    <<"\n">>

BlankLine ==
    <<"\n", "\n">>

(***************************************************************************)
(* The generation endpoint POST /api/lyrics/generate (backend/main.py).    *)
(* ParameterValidator, LyricProvider and GenerationService.                *)
(***************************************************************************)
\* The BPM input's min and max attributes.
BpmMin == 40
BpmMax == 240

\* The length bound of genre, mood and theme.
MaxFieldLen == 100

TextFields == <<"genre", "mood", "theme">>

\* Signed decimal digits, as an integer parser accepts them.
IsIntegerText(s) ==
    LET t == Trim(s) IN
    \/ IsDigits(t)
    \/ t # Empty /\ Head(t) \in {"-", "+"} /\ IsDigits(Tail(t))

\* bpm must parse as an integer.
BpmParses(v) ==
    \/ v.t = "number" /\ v.d = 0
    \/ v.t = "string" /\ IsIntegerText(v.s)

\* Mutant: both bounds off by one.
BpmInRange_OffByOne(n) == BpmMin - 1 <= n /\ n <= BpmMax + 1

BpmInRange(n) == BpmMin <= n /\ n <= BpmMax

\* Mutant: the length bound is applied to the text as received, with its
\* leading and trailing white space.
RECURSIVE FirstBadField_RawLength(_, _)
FirstBadField_RawLength(r, i) ==
    IF i > Len(TextFields) THEN 0
    ELSE IF r[TextFields[i]].t # "string" \/ Trim(r[TextFields[i]].s) = Empty
         \/ Len(r[TextFields[i]].s) > MaxFieldLen
    THEN i
    ELSE FirstBadField_RawLength(r, i + 1)

\* The first of genre, mood, theme that is absent, empty after trimming or,
\* trimmed, longer than the bound, or 0 when there is none.
RECURSIVE FirstBadField(_, _)
FirstBadField(r, i) ==
    IF i > Len(TextFields) THEN 0
    ELSE IF r[TextFields[i]].t # "string" \/ Trim(r[TextFields[i]].s) = Empty
         \/ Len(Trim(r[TextFields[i]].s)) > MaxFieldLen
    THEN i
    ELSE FirstBadField(r, i + 1)

FieldReason(v) ==
    IF v.t # "string" \/ Trim(v.s) = Empty THEN "MissingField" ELSE "TooLong"

ValidationError(reason, field) == [kind |-> "ValidationError", reason |-> reason, field |-> field]

GenerationRequest(genre, bpm, mood, theme) ==
    [kind |-> "GenerationRequest", genre |-> genre, bpm |-> bpm, mood |-> mood, theme |-> theme]

\* validate(raw) -> GenerationRequest | ValidationError
validate(r) ==
    IF ~BpmParses(r.bpm) THEN ValidationError("InvalidBpm", "bpm")
    ELSE IF ~BpmInRange(ToNumber(r.bpm).n) THEN ValidationError("InvalidBpm", "bpm")
    ELSE IF FirstBadField(r, 1) # 0
    THEN ValidationError(FieldReason(r[TextFields[FirstBadField(r, 1)]]),
                         TextFields[FirstBadField(r, 1)])
    ELSE GenerationRequest(Trim(r.genre.s), ToNumber(r.bpm).n, Trim(r.mood.s), Trim(r.theme.s))

\* DeterministicProvider.generate(request) -> string: templated text of
\* genre, mood and theme with a tempo marker derived from the bpm.
DeterministicProvider(req) ==
    req.genre \o <<"/">> \o req.mood \o <<"/">> \o req.theme \o <<"@">> \o IntToString(req.bpm)

\* The freshly captured timestamp of a result.
Timestamp(now) == <<"T">> \o IntToString(now)

\* The parsed body of a response: the JSON value null (t = "null"), or a
\* value whose properties can be read (t = "object"), with the properties
\* the clients read (undefined when absent).
Data(t, lyricsV, timestampV, urlV) ==
    [t |-> t, lyrics |-> lyricsV, timestamp |-> timestampV, url |-> urlV]

\* An HTTP response: its status, whether its body parses as JSON, and the
\* parsed body.
Response(status, parses, lyricsV, timestampV, urlV) ==
    [status |-> status, parses |-> parses,
     data |-> Data("object", lyricsV, timestampV, urlV)]

\* A response whose body is the JSON text null.
NullResponse(status) ==
    [status |-> status, parses |-> TRUE,
     data |-> Data("null", JsUndefined, JsUndefined, JsUndefined)]

NoResponse == [status |-> 0, parses |-> FALSE,
               data |-> Data("object", JsUndefined, JsUndefined, JsUndefined)]

\* handleGenerate(rawRequest): validate, invoke the provider, assemble the
\* result with the timestamp; a validation error is a 400.
handleGenerate(r, now) ==
    LET v == validate(r) IN
    IF v.kind = "ValidationError"
    THEN Response(400, TRUE, JsUndefined, JsUndefined, JsUndefined)
    ELSE Response(200, TRUE, JsStr(DeterministicProvider(v)), JsStr(Timestamp(now)), JsUndefined)

(***************************************************************************)
(* The inputs of the validator's specification.                            *)
(***************************************************************************)
Pop == <<"p", "o", "p">>
PaddedPop == <<" ", "p", "o", "p", " ">>
Blank == <<" ">>
FullText == [i \in 1..MaxFieldLen |-> "x"]
PaddedFullText == <<" ">> \o FullText \o <<"\t">>
LongText == [i \in 1..(MaxFieldLen + 1) |-> "x"]

RawBpms ==
    {JsNum(39), JsNum(40), JsNum(90), JsNum(240), JsNum(241), JsNum(500), JsDec(905, 1),
     JsStr(<<"9", "0">>), JsStr(<<"2", "4", "1">>), JsStr(<<"a", "b", "c">>), JsStr(Empty),
     JsNull, JsUndefined}

RawTexts ==
    {JsStr(Empty), JsStr(Pop), JsStr(PaddedPop), JsStr(Blank), JsStr(FullText),
     JsStr(PaddedFullText), JsStr(LongText), JsUndefined}

RawRequests ==
    [genre : RawTexts, bpm : RawBpms, mood : RawTexts, theme : RawTexts]

NotRun == [kind |-> "NotRun"]

(***************************************************************************)
(* The consumers of the plan listing: the plans page (App with plans and   *)
(* error state, GET /api/plans) and the SubscriptionPlans component        *)
(* (GET /api/subscriptions).                                               *)
(*                                                                         *)
(* A listing is [type, items]: type is "object" or "array", items the      *)
(* sequence of [key, value] in property order.  A plan object is a record  *)
(* with the set `has` of the properties it owns; a property it does not    *)
(* own reads as undefined.                                                 *)
(***************************************************************************)
PlanObject(has, name, price, days, features, pricing) ==
    [has |-> has, name |-> name, price |-> price, duration_days |-> days,
     features |-> features, pricing |-> pricing]

Listing(type, items) == [type |-> type, items |-> items]

\* useState({}) and useState([])
EmptyObject == Listing("object", << >>)
EmptyArray == Listing("array", << >>)

Monthly == <<"m", "o", "n", "t", "h", "l", "y">>

Annually == <<"a", "n", "n", "u", "a", "l", "l", "y">>

LowerLetters ==
    <<"a", "b", "c", "d", "e", "f", "g", "h", "i", "j", "k", "l", "m",
      "n", "o", "p", "q", "r", "s", "t", "u", "v", "w", "x", "y", "z">>

UpperLetters ==
    <<"A", "B", "C", "D", "E", "F", "G", "H", "I", "J", "K", "L", "M",
      "N", "O", "P", "Q", "R", "S", "T", "U", "V", "W", "X", "Y", "Z">>

\* c.toUpperCase() of one ASCII character: a lower-case letter becomes its
\* upper-case letter, any other character stays.
UpperCase(c) ==
    IF \E i \in 1..26 : LowerLetters[i] = c
    THEN UpperLetters[CHOOSE i \in 1..26 : LowerLetters[i] = c]
    ELSE c

\* cycle.charAt(0).toUpperCase() + cycle.slice(1)
Capitalize(cycle) ==
    IF cycle = Empty THEN Empty ELSE <<UpperCase(Head(cycle))>> \o Tail(cycle)

TypeError(what) == [kind |-> "TypeError", what |-> what, cards |-> << >>]

View(cards) == [kind |-> "view", what |-> "", cards |-> cards]

\* The properties of a plan the plans page reads (plan.features, plan.pricing).
PlansPageReads == {"features", "pricing"}

\* The properties of a plan SubscriptionPlans reads.
PlanListReads == {"name", "price", "duration_days"}

\* One card of the plans page: title, feature list, price lines, button.
PlansPageCard(item) ==
    [title |-> item.key,
     features |-> item.value.features,
     prices |-> [j \in 1..Len(item.value.pricing) |->
                    [cycle |-> Capitalize(item.value.pricing[j].cycle),
                     price |-> item.value.pricing[j].price]],
     current |-> (item.key = "free")]

\* The first item whose card cannot be built, or 0: plan.features.map and
\* Object.entries(plan.pricing) throw a TypeError on undefined.
RECURSIVE FirstBrokenCard(_, _)
FirstBrokenCard(items, i) ==
    IF i > Len(items) THEN 0
    ELSE IF ~(PlansPageReads \subseteq items[i].value.has) THEN i
    ELSE FirstBrokenCard(items, i + 1)

\* The render of the plans page: Object.entries(plans).map(...).
RenderPlansPage(plans) ==
    LET bad == FirstBrokenCard(plans.items, 1) IN
    IF bad # 0
    THEN TypeError(IF "features" \notin plans.items[bad].value.has
                   THEN "plan.features is undefined"
                   ELSE "plan.pricing is undefined")
    ELSE View([i \in 1..Len(plans.items) |-> PlansPageCard(plans.items[i])])

\* One line of SubscriptionPlans: name - $price (duration_days days); an
\* undefined property renders as nothing.
PlanListLine(item) ==
    [name |-> IF "name" \in item.value.has THEN item.value.name ELSE "",
     price |-> IF "price" \in item.value.has THEN item.value.price ELSE 0,
     days |-> IF "duration_days" \in item.value.has THEN item.value.duration_days ELSE 0,
     shown |-> PlanListReads \cap item.value.has]

\* The render of SubscriptionPlans: plans.map(...), a method of arrays only.
RenderPlanList(plans) ==
    IF plans.type # "array" THEN TypeError("plans.map is not a function")
    ELSE View([i \in 1..Len(plans.items) |-> PlanListLine(plans.items[i])])

PlansIdle ==
    /\ plansPage = [status |-> "mounted", plans |-> EmptyObject, error |-> FALSE,
                    view |-> RenderPlansPage(EmptyObject)]
    /\ planList = [status |-> "mounted", plans |-> EmptyArray, body |-> EmptyArray,
                   view |-> RenderPlanList(EmptyArray)]

plansVars == <<plansPage, planList>>

(***************************************************************************)
(* Initial values of the parts a specification leaves alone.               *)
(***************************************************************************)
AppIdle ==
    /\ form = [genre |-> JsStr(HipHop), bpm |-> JsNum(90),
               mood |-> JsStr(Energetic), theme |-> JsStr(Love)]
    /\ loading = FALSE
    /\ lyrics = Empty
    /\ calls = << >>
    /\ edits = 0

CheckoutIdle ==
    /\ subs = << >>
    /\ location = Empty
    /\ alerts = << >>

BackendIdle ==
    /\ clock = 0
    /\ served = << >>

UnderTestIdle ==
    /\ raw = NotRun
    /\ out = NotRun

appVars == <<form, loading, lyrics, calls, edits>>
checkoutVars == <<subs, location, alerts>>
backendVars == <<clock, served>>
testVars == <<raw, out>>

(***************************************************************************)
(* The validator on its own: one raw request, validated once.              *)
(***************************************************************************)
InitValidate ==
    /\ AppIdle /\ CheckoutIdle /\ BackendIdle /\ PlansIdle
    /\ raw \in RawRequests
    /\ out = NotRun

Validate ==
    /\ out = NotRun
    /\ out' = validate(raw)
    /\ UNCHANGED <<raw, appVars, checkoutVars, backendVars, plansVars>>

NextValidate == Validate

SpecValidate == InitValidate /\ [][NextValidate]_vars

(***************************************************************************)
(* App (react-frontend/src/App.js): the form and the generate() call.      *)
(* The Copy and Docs buttons write the clipboard and scroll the window:    *)
(* they change none of the state below and have no action.                 *)
(***************************************************************************)
\* What the user can type into the genre, mood and theme inputs: nothing,
\* or a word with white space around it (the initial values are words
\* without).
TextInputs == {Empty, PaddedPop}

\* What the BPM input (type="number") can hand to onChange: the empty
\* string or the text of a number.
BpmInputs ==
    {Empty, <<"3", "9">>, <<"2", "4", "0">>, <<"2", "4", "1">>, <<"1", "e", "2">>}

FormEdits ==
    {<<TextFields[i], v>> : i \in 1..Len(TextFields), v \in TextInputs}
    \cup {<<"bpm", v>> : v \in BpmInputs}

\* update(k, v): setForm(prev => ({ ...prev, [k]: v }))
update(prev, k, v) == [prev EXCEPT ![k] = v]

\* Mutant: the status is never looked at.
Ok_Unchecked(resp) == resp.status >= 0

\* Response.ok
Ok(resp) == 200 <= resp.status /\ resp.status <= 299

\* Mutant: the form is sent as it is, bpm not converted.
GenerateBody_Unconverted(f) ==
    [genre |-> JsonValue(f.genre), bpm |-> JsonValue(f.bpm),
     mood |-> JsonValue(f.mood), theme |-> JsonValue(f.theme)]

\* JSON.stringify({ ...form, bpm: Number(form.bpm) })
GenerateBody(f) ==
    [genre |-> JsonValue(f.genre), bpm |-> JsonValue(ToNumber(f.bpm)),
     mood |-> JsonValue(f.mood), theme |-> JsonValue(f.theme)]

\* A valid floating-point number of HTML: an optional "-", then digits, or
\* digits, a point and digits, or a point and digits, then an optional
\* exponent.
IsValidFloat(s) ==
    LET u == IF s # Empty /\ Head(s) = "-" THEN Tail(s) ELSE s
        q == DecimalParts(u)
    IN  /\ IsUnsignedDecimal(u)
        /\ q.point => q.frac # Empty

\* The value of an input of type="number": a text that is not a valid
\* floating-point number is replaced by the empty string.
SanitizeNumber(s) == IF IsValidFloat(s) THEN s ELSE Empty

\* The BPM input's constraint validation (type="number", min, max, the
\* default step of 1 counted from min, not required): the browser does not
\* fire onSubmit while the field's number is out of range or off a step.
BpmFieldValid(v) ==
    LET text == SanitizeNumber(JsToString(v))
        num == StringToNumber(text)
    IN  \/ text = Empty
        \/ /\ num.t = "number" /\ num.d = 0
           /\ BpmMin <= num.n
           /\ num.n <= BpmMax

\* Mutant: the submit button is not disabled while loading.
CanSubmit_NeverDisabled == BpmFieldValid(form.bpm)

\* The submit button is enabled and the form passes validation.
CanSubmit == ~loading /\ BpmFieldValid(form.bpm)

\* data.lyrics + '\n\n' + data.timestamp
ShownResult(data) == JsToString(data.lyrics) \o BlankLine \o JsToString(data.timestamp)

\* A generate() call: where it stands, the body it sent, the response it
\* received, and whether the response's body has been received in full
\* (the headers, and with them the status, arrive first).
Call(pc, body, resp) == [pc |-> pc, body |-> body, resp |-> resp, bodyIn |-> FALSE]

Init ==
    /\ AppIdle /\ CheckoutIdle /\ BackendIdle /\ UnderTestIdle /\ PlansIdle

\* onChange of one of the four inputs.
Update(k, v) ==
    /\ edits < MaxEdits
    /\ edits' = edits + 1
    /\ form' = update(form, k, JsStr(v))
    /\ UNCHANGED <<loading, lyrics, calls, checkoutVars, backendVars, testVars, plansVars>>

\* onSubmit: generate() up to its await of fetch (lines 11-19).
Generate ==
    /\ CanSubmit
    /\ Len(calls) < MaxCalls
    /\ loading' = TRUE
    /\ lyrics' = Generating
    /\ calls' = Append(calls, Call("fetch", GenerateBody(form), NoResponse))
    /\ UNCHANGED <<form, edits, checkoutVars, backendVars, testVars, plansVars>>

\* The backend answers the request of call i.
ServerRespond(i) ==
    /\ calls[i].pc = "fetch" /\ calls[i].resp = NoResponse
    /\ clock < MaxClock
    /\ clock' = clock + 1
    /\ LET resp == handleGenerate(calls[i].body, clock) IN
       /\ calls' = [calls EXCEPT ![i].resp = resp]
       /\ served' = IF Ok(resp)
                    THEN Append(served, [request |-> calls[i].body, lyrics |-> resp.data.lyrics.s])
                    ELSE served
    /\ UNCHANGED <<form, loading, lyrics, edits, checkoutVars, testVars, plansVars>>

\* A gateway in front of the backend answers 502 with a body that is not JSON.
GatewayError(i) ==
    /\ calls[i].pc = "fetch" /\ calls[i].resp = NoResponse
    /\ calls' = [calls EXCEPT ![i].resp =
                    Response(502, FALSE, JsUndefined, JsUndefined, JsUndefined)]
    /\ UNCHANGED <<form, loading, lyrics, edits, checkoutVars, backendVars, testVars, plansVars>>

\* A 200 answer whose body is the JSON text null.
BodyNull(i) ==
    /\ calls[i].pc = "fetch" /\ calls[i].resp = NoResponse
    /\ calls' = [calls EXCEPT ![i].resp = NullResponse(200)]
    /\ UNCHANGED <<form, loading, lyrics, edits, checkoutVars, backendVars, testVars, plansVars>>

\* A 200 answer whose body does not parse as JSON.
BodyUnreadable(i) ==
    /\ calls[i].pc = "fetch" /\ calls[i].resp = NoResponse
    /\ calls' = [calls EXCEPT ![i].resp =
                    Response(200, FALSE, JsUndefined, JsUndefined, JsUndefined)]
    /\ UNCHANGED <<form, loading, lyrics, edits, checkoutVars, backendVars, testVars, plansVars>>

\* Mutant: the catch without the finally: loading is left as it is.
GenerateFailed_NoFinally(i) ==
    /\ lyrics' = FailedToGenerate
    /\ loading' = loading
    /\ calls' = [calls EXCEPT ![i] = Call("done", calls[i].body, NoResponse)]

\* catch and finally of generate() (lines 23-28).  A finished call keeps
\* no response: it was consumed.
GenerateFailed(i) ==
    /\ lyrics' = FailedToGenerate
    /\ loading' = FALSE
    /\ calls' = [calls EXCEPT ![i] = Call("done", calls[i].body, NoResponse)]

\* fetch rejects (the backend is not reachable): catch, finally.
FetchRejected(i) ==
    /\ calls[i].pc = "fetch" /\ calls[i].resp = NoResponse
    /\ GenerateFailed(i)
    /\ UNCHANGED <<form, edits, checkoutVars, backendVars, testVars, plansVars>>

\* fetch resolves: line 20, then the await of resp.json() (line 21).
FetchResolved(i) ==
    /\ calls[i].pc = "fetch" /\ calls[i].resp # NoResponse
    /\ IF Ok(calls[i].resp)
       THEN /\ calls' = [calls EXCEPT ![i].pc = "json"]
            /\ UNCHANGED <<loading, lyrics>>
       ELSE GenerateFailed(i)
    /\ UNCHANGED <<form, edits, checkoutVars, backendVars, testVars, plansVars>>

\* The body of the response that call i is reading arrives in full; until
\* then resp.json() stays pending.
BodyDelivered(i) ==
    /\ calls[i].pc = "json" /\ ~calls[i].bodyIn
    /\ calls' = [calls EXCEPT ![i].bodyIn = TRUE]
    /\ UNCHANGED <<form, loading, lyrics, edits, checkoutVars, backendVars, testVars, plansVars>>

\* resp.json() settles once the body has arrived: line 22, or catch (the
\* body is not JSON, or it is null and data.lyrics throws a TypeError);
\* then finally.
JsonSettled(i) ==
    /\ calls[i].pc = "json" /\ calls[i].bodyIn
    /\ IF calls[i].resp.parses /\ calls[i].resp.data.t # "null"
       THEN /\ lyrics' = ShownResult(calls[i].resp.data)
            /\ loading' = FALSE
            /\ calls' = [calls EXCEPT ![i] = Call("done", calls[i].body, NoResponse)]
       ELSE GenerateFailed(i)
    /\ UNCHANGED <<form, edits, checkoutVars, backendVars, testVars, plansVars>>

\* The Clear button: setLyrics('').
Clear ==
    /\ lyrics' = Empty
    /\ UNCHANGED <<form, loading, calls, edits, checkoutVars, backendVars, testVars, plansVars>>

Next ==
    \/ \E e \in FormEdits : Update(e[1], e[2])
    \/ Generate
    \/ Clear
    \/ \E i \in 1..Len(calls) : ServerRespond(i)
    \/ \E i \in 1..Len(calls) : GatewayError(i)
    \/ \E i \in 1..Len(calls) : BodyNull(i)
    \/ \E i \in 1..Len(calls) : BodyUnreadable(i)
    \/ \E i \in 1..Len(calls) : FetchRejected(i)
    \/ \E i \in 1..Len(calls) : FetchResolved(i)
    \/ \E i \in 1..Len(calls) : BodyDelivered(i)
    \/ \E i \in 1..Len(calls) : JsonSettled(i)

Spec == Init /\ [][Next]_vars

\* The event loop runs the continuation of an await once its promise has
\* settled: a received response is processed, a body that has arrived is
\* parsed and processed.  Nothing makes a response or a body arrive.
Fairness ==
    \A i \in 1..MaxCalls :
        /\ WF_vars(i <= Len(calls) /\ FetchResolved(i))
        /\ WF_vars(i <= Len(calls) /\ JsonSettled(i))

SpecLive == Spec /\ Fairness

(***************************************************************************)
(* App: the subscribe() call (lines 31-41).  It shares no state with the   *)
(* form and generate(), and is specified on its own.                       *)
(***************************************************************************)
PayUrl == <<"h", "t", "t", "p", "s", ":", "/", "/", "p", "a", "y">>

\* What POST /api/create-checkout-session can answer: any of these statuses
\* with a JSON body that has a url, an empty url or no url, with the JSON
\* body null, or with a body that is not JSON.
CheckoutStatuses == {200, 201, 299, 300, 400, 500}

CheckoutResponses ==
    {Response(st, TRUE, JsUndefined, JsUndefined, u) :
        st \in CheckoutStatuses, u \in {JsStr(PayUrl), JsStr(Empty), JsUndefined}}
    \cup {NullResponse(st) : st \in CheckoutStatuses}
    \cup {Response(st, FALSE, JsUndefined, JsUndefined, JsUndefined) : st \in CheckoutStatuses}

\* ToBoolean(v), as `if (data.url)` applies it.
Truthy(v) ==
    \/ v.t = "string" /\ v.s # Empty
    \/ v.t = "number" /\ v.n # 0
    \/ v.t = "Infinity"

\* onClick of the Subscribe button: subscribe() up to its await of fetch.
Subscribe ==
    /\ Len(subs) < MaxSubs
    /\ subs' = Append(subs, [pc |-> "fetch", resp |-> NoResponse])
    /\ UNCHANGED <<location, alerts, appVars, backendVars, testVars, plansVars>>

\* The payment collaborator answers call i.
CheckoutRespond(i, resp) ==
    /\ subs[i].pc = "fetch" /\ subs[i].resp = NoResponse
    /\ subs' = [subs EXCEPT ![i].resp = resp]
    /\ UNCHANGED <<location, alerts, appVars, backendVars, testVars, plansVars>>

\* catch of subscribe() (lines 37-40).
SubscribeFailed(i) ==
    /\ alerts' = Append(alerts, FailedCheckout)
    /\ subs' = [subs EXCEPT ![i] = [pc |-> "done", resp |-> NoResponse]]
    /\ UNCHANGED location

\* fetch rejects: catch.
CheckoutRejected(i) ==
    /\ subs[i].pc = "fetch" /\ subs[i].resp = NoResponse
    /\ SubscribeFailed(i)
    /\ UNCHANGED <<appVars, backendVars, testVars, plansVars>>

\* fetch resolves: line 34, then the await of resp.json() (line 35).
CheckoutResolved(i) ==
    /\ subs[i].pc = "fetch" /\ subs[i].resp # NoResponse
    /\ IF Ok(subs[i].resp)
       THEN /\ subs' = [subs EXCEPT ![i].pc = "json"]
            /\ UNCHANGED <<location, alerts>>
       ELSE SubscribeFailed(i)
    /\ UNCHANGED <<appVars, backendVars, testVars, plansVars>>

\* resp.json() settles: line 36, or catch (the body is not JSON, or it is
\* null and data.url throws a TypeError).
CheckoutJsonSettled(i) ==
    /\ subs[i].pc = "json"
    /\ IF subs[i].resp.parses /\ subs[i].resp.data.t # "null"
       THEN /\ location' = IF Truthy(subs[i].resp.data.url)
                           THEN JsToString(subs[i].resp.data.url)
                           ELSE location
            /\ subs' = [subs EXCEPT ![i] = [pc |-> "done", resp |-> NoResponse]]
            /\ UNCHANGED alerts
       ELSE SubscribeFailed(i)
    /\ UNCHANGED <<appVars, backendVars, testVars, plansVars>>

NextSubscribe ==
    \/ Subscribe
    \/ \E i \in 1..Len(subs) : \E resp \in CheckoutResponses : CheckoutRespond(i, resp)
    \/ \E i \in 1..Len(subs) : CheckoutRejected(i)
    \/ \E i \in 1..Len(subs) : CheckoutResolved(i)
    \/ \E i \in 1..Len(subs) : CheckoutJsonSettled(i)

SpecSubscribe == Init /\ [][NextSubscribe]_vars

(***************************************************************************)
(* Claims about the validator (SpecValidate).                              *)
(***************************************************************************)
\* t is s without its leading and trailing white space, stated without Trim.
IsTrimOf(t, s) ==
    \E a \in 0..Len(s) :
        /\ a + Len(t) <= Len(s)
        /\ SubSeq(s, a + 1, a + Len(t)) = t
        /\ \A i \in 1..Len(s) : (i <= a \/ i > a + Len(t)) => s[i] \in WhiteSpace
        /\ t # Empty => (t[1] \notin WhiteSpace /\ t[Len(t)] \notin WhiteSpace)

C2_BpmInRange ==
    raw.bpm.t = "number" /\ raw.bpm.d = 0 /\ raw.bpm.n >= 40 /\ raw.bpm.n <= 240

C2_NonEmpty(v) == v.t = "string" /\ v.s # Empty

\* The positions of s that hold a character other than white space.
C2_TextAt(s) == {i \in 1..Len(s) : s[i] \notin WhiteSpace}

\* v is a string with a character other than white space, and from the
\* first such character to the last it is within the length bound.
C2_HasText(v) ==
    /\ v.t = "string"
    /\ C2_TextAt(v.s) # {}
    /\ \A i, j \in C2_TextAt(v.s) : j - i + 1 <= MaxFieldLen

\* s is a non-empty text within the length bound with no white space at
\* either end: the invariant of a GenerationRequest's text.
C2_IsRequestText(s) ==
    /\ s # Empty /\ Len(s) <= MaxFieldLen
    /\ s[1] \notin WhiteSpace /\ s[Len(s)] \notin WhiteSpace

C3_BadBpm(v) ==
    \/ v.t = "number" /\ (v.n <= 39 \/ v.n >= 241 \/ v.d # 0)
    \/ v.t \notin {"number", "string"}
    \/ v.t = "string" /\ ~IsIntegerText(v.s)
    \/ v = JsStr(<<"2", "4", "1">>)

\* C3: validate rejects bpm = 39, bpm = 241 and every other out-of-range or
\* non-numeric bpm with ValidationError(InvalidBpm), and returns no
\* GenerationRequest.
C3_InvalidBpmRejected ==
    (out # NotRun /\ C3_BadBpm(raw.bpm))
    => (out.kind = "ValidationError" /\ out.reason = "InvalidBpm")

\* bpm = 39 was rejected although every other field is valid.
C3_Witness ==
    /\ raw.bpm = JsNum(39)
    /\ raw.genre = JsStr(Pop) /\ raw.mood = JsStr(Pop) /\ raw.theme = JsStr(Pop)
    /\ out # NotRun
    /\ out.kind = "ValidationError" /\ out.reason = "InvalidBpm"

(***************************************************************************)
(* The subscription catalog of package.json and the PlanRegistry over it.  *)
(***************************************************************************)
Plan(id, price, days, features) ==
    [id |-> id, price |-> price, duration_days |-> days, features |-> features]

\* Mutant: quarterly and semi_annually listed the other way round.
subscriptions_Swapped ==
    << Plan("bi_weekly", 15, 14, <<"Basic sample organization", "Limited DAW integration">>),
       Plan("monthly", 30, 30,
            <<"Full sample organization", "Multi-DAW support", "Priority customer support">>),
       Plan("semi_annually", 150, 180, <<"AI-powered recommendations", "Extended storage">>),
       Plan("quarterly", 80, 90, <<"Enhanced automation", "Early access to plugins">>),
       Plan("annually", 280, 365, <<"Enterprise-level customization", "Exclusive creator events">>),
       Plan("bi_annually", 500, 730, <<"Lifetime updates", "Direct creator collaboration">>) >>

\* "subscriptions" of package.json, in the order of its keys.
subscriptions ==
    << Plan("bi_weekly", 15, 14, <<"Basic sample organization", "Limited DAW integration">>),
       Plan("monthly", 30, 30,
            <<"Full sample organization", "Multi-DAW support", "Priority customer support">>),
       Plan("quarterly", 80, 90, <<"Enhanced automation", "Early access to plugins">>),
       Plan("semi_annually", 150, 180, <<"AI-powered recommendations", "Extended storage">>),
       Plan("annually", 280, 365, <<"Enterprise-level customization", "Exclusive creator events">>),
       Plan("bi_annually", 500, 730, <<"Lifetime updates", "Direct creator collaboration">>) >>

NotFoundError(id) == [kind |-> "NotFoundError", planId |-> id]

\* listPlans(): the catalog, in catalog order.
listPlans == subscriptions

\* The position of plan id in the catalog, or 0.
RECURSIVE IndexOfPlan(_, _)
IndexOfPlan(id, i) ==
    IF i > Len(listPlans) THEN 0
    ELSE IF listPlans[i].id = id THEN i
    ELSE IndexOfPlan(id, i + 1)

\* getPlan(id) -> PlanDefinition | NotFoundError
getPlan(id) ==
    IF IndexOfPlan(id, 1) = 0 THEN NotFoundError(id)
    ELSE [kind |-> "PlanDefinition", plan |-> listPlans[IndexOfPlan(id, 1)]]

\* Mutant: an unknown plan id is granted everything (fails open).
grants_FailOpen(id, feature) ==
    LET p == getPlan(id) IN
    IF p.kind = "NotFoundError" THEN TRUE
    ELSE \E j \in 1..Len(p.plan.features) : p.plan.features[j] = feature

\* grants(id, feature) -> boolean, false for an unknown plan id.
grants(id, feature) ==
    LET p == getPlan(id) IN
    IF p.kind = "NotFoundError" THEN FALSE
    ELSE \E j \in 1..Len(p.plan.features) : p.plan.features[j] = feature

(***************************************************************************)
(* The registry on its own: one query, answered once.                      *)
(***************************************************************************)
QueryIds ==
    {"bi_weekly", "monthly", "quarterly", "semi_annually", "annually", "bi_annually",
     "nonexistent_plan", "free", ""}

QueryFeatures ==
    {"Basic sample organization", "Limited DAW integration", "Full sample organization",
     "Multi-DAW support", "Priority customer support", "Enhanced automation",
     "Early access to plugins", "AI-powered recommendations", "Extended storage",
     "Enterprise-level customization", "Exclusive creator events", "Lifetime updates",
     "Direct creator collaboration", "advanced_generation", ""}

Queries == [op : {"listPlans", "getPlan", "grants"}, id : QueryIds, feature : QueryFeatures]

InitRegistry ==
    /\ AppIdle /\ CheckoutIdle /\ BackendIdle /\ PlansIdle
    /\ raw \in Queries
    /\ out = NotRun

ListPlans ==
    /\ out = NotRun /\ raw.op = "listPlans"
    /\ out' = [kind |-> "Plans", plans |-> listPlans]
    /\ UNCHANGED <<raw, appVars, checkoutVars, backendVars, plansVars>>

GetPlan ==
    /\ out = NotRun /\ raw.op = "getPlan"
    /\ out' = getPlan(raw.id)
    /\ UNCHANGED <<raw, appVars, checkoutVars, backendVars, plansVars>>

Grants ==
    /\ out = NotRun /\ raw.op = "grants"
    /\ out' = [kind |-> "Granted", granted |-> grants(raw.id, raw.feature)]
    /\ UNCHANGED <<raw, appVars, checkoutVars, backendVars, plansVars>>

NextRegistry == ListPlans \/ GetPlan \/ Grants

SpecRegistry == InitRegistry /\ [][NextRegistry]_vars

(***************************************************************************)
(* The plan listing endpoints and their consumers on their own.            *)
(***************************************************************************)
\* The listing in the shape of package.json's "subscriptions": a mapping of
\* plan id to { price, duration_days, features }, for the first n plans.
FlatListing(n) ==
    Listing("object",
        [i \in 1..n |->
            [key |-> subscriptions[i].id,
             value |-> PlanObject({"price", "duration_days", "features"}, "",
                                  subscriptions[i].price, subscriptions[i].duration_days,
                                  subscriptions[i].features, << >>)]])

MonthsPerYear == 12

\* The shape the plans page is written for: a mapping of plan id to
\* { pricing: { cycle: price }, features }.
NestedListing(n) ==
    Listing("object",
        [i \in 1..n |->
            [key |-> subscriptions[i].id,
             value |-> PlanObject({"pricing", "features"}, "", 0, 0,
                                  subscriptions[i].features,
                                  <<[cycle |-> Monthly, price |-> subscriptions[i].price],
                                    [cycle |-> Annually,
                                     price |-> MonthsPerYear * subscriptions[i].price]>>)]])

\* The shape SubscriptionPlans is written for: an array of
\* { name, price, duration_days }.
ArrayListing(n) ==
    Listing("array",
        [i \in 1..n |->
            [key |-> Digits[i],
             value |-> PlanObject({"name", "price", "duration_days"}, subscriptions[i].id,
                                  subscriptions[i].price, subscriptions[i].duration_days,
                                  << >>, << >>)]])

\* What a plan-listing endpoint can answer.
Listings ==
    {FlatListing(n) : n \in 0..Len(subscriptions)}
    \cup {NestedListing(n) : n \in 0..Len(subscriptions)}
    \cup {ArrayListing(n) : n \in 0..Len(subscriptions)}

\* The plans page: axios.get resolves, setPlans(response.data), render.
PlansPageLoaded(data) ==
    /\ plansPage.status = "mounted"
    /\ plansPage' = [status |-> "loaded", plans |-> data, error |-> FALSE,
                     view |-> RenderPlansPage(data)]
    /\ UNCHANGED <<planList, appVars, checkoutVars, backendVars, testVars>>

\* The plans page: axios.get rejects, setError(...), render.
PlansPageFailed ==
    /\ plansPage.status = "mounted"
    /\ plansPage' = [plansPage EXCEPT !.status = "failed", !.error = TRUE]
    /\ UNCHANGED <<planList, appVars, checkoutVars, backendVars, testVars>>

\* SubscriptionPlans: fetch resolves with a response of any status whose
\* body is data, then(res => res.json()) starts reading it; plans is
\* still [].
PlanListFetchResolved(data) ==
    /\ planList.status = "mounted"
    /\ planList' = [planList EXCEPT !.status = "json", !.body = data]
    /\ UNCHANGED <<plansPage, appVars, checkoutVars, backendVars, testVars>>

\* SubscriptionPlans: res.json() resolves, then(data => setPlans(data)),
\* render.
PlanListLoaded ==
    /\ planList.status = "json"
    /\ planList' = [status |-> "loaded", plans |-> planList.body, body |-> EmptyArray,
                    view |-> RenderPlanList(planList.body)]
    /\ UNCHANGED <<plansPage, appVars, checkoutVars, backendVars, testVars>>

\* SubscriptionPlans: the fetch or res.json() rejects, the error is logged,
\* plans stays [].
PlanListFailed ==
    /\ planList.status \in {"mounted", "json"}
    /\ planList' = [planList EXCEPT !.status = "failed", !.body = EmptyArray]
    /\ UNCHANGED <<plansPage, appVars, checkoutVars, backendVars, testVars>>

NextPlans ==
    \/ \E data \in Listings : PlansPageLoaded(data)
    \/ PlansPageFailed
    \/ \E data \in Listings : PlanListFetchResolved(data)
    \/ PlanListLoaded
    \/ PlanListFailed

SpecPlans == Init /\ [][NextPlans]_vars

(***************************************************************************)
(* Claims about the plan listing and its consumers (SpecPlans).            *)
(***************************************************************************)
C11_CanonicalFields == {"price", "duration_days", "features"}

\* The listing is a non-empty mapping of plan id to
\* { price, duration_days, features }.
C11_Canonical(plans) ==
    /\ plans.type = "object"
    /\ plans.items # << >>
    /\ \A i \in 1..Len(plans.items) : plans.items[i].value.has = C11_CanonicalFields

\* C11: the plan listing has one canonical shape, a mapping of plan id to
\* { price, duration_days, features }, and every consumer of it reads only
\* fields of that shape: none requires the nested pricing map or an array
\* of entries with a name field.
C11_ConsumersReadCanonicalShape ==
    /\ (plansPage.status = "loaded" /\ C11_Canonical(plansPage.plans))
       => (/\ plansPage.view.kind = "view"
           /\ PlansPageReads \subseteq C11_CanonicalFields)
    /\ (planList.status = "loaded" /\ C11_Canonical(planList.plans))
       => (/\ planList.view.kind = "view"
           /\ PlanListReads \subseteq C11_CanonicalFields)

(***************************************************************************)
(* Claims about the catalog and the registry (SpecRegistry).               *)
(***************************************************************************)
C1_Ids == <<"bi_weekly", "monthly", "quarterly", "semi_annually", "annually", "bi_annually">>

C1_Days == <<14, 30, 90, 180, 365, 730>>

\* C1: the catalog lists exactly six plans, in the order bi_weekly,
\* monthly, quarterly, semi_annually, annually, bi_annually, with durations
\* 14, 30, 90, 180, 365 and 730 days, strictly increasing along the list.
C1_CatalogOrder ==
    (out # NotRun /\ out.kind = "Plans")
    => (/\ Len(out.plans) = 6
        /\ \A i \in 1..6 : out.plans[i].id = C1_Ids[i]
        /\ \A i \in 1..6 : out.plans[i].duration_days = C1_Days[i]
        /\ \A i \in 1..5 : out.plans[i].duration_days < out.plans[i + 1].duration_days)

\* The plans were listed.
C1_Witness ==
    /\ out # NotRun /\ out.kind = "Plans"
    /\ Len(out.plans) = 6
    /\ out.plans[4].id = "semi_annually" /\ out.plans[4].duration_days = 180

C4_IsCatalogId(id) == \E i \in 1..6 : C1_Ids[i] = id

C4_Entry(id) == subscriptions[CHOOSE i \in 1..6 : C1_Ids[i] = id]

\* C4: grants(id, feature) is true exactly when id is one of the catalog's
\* six plan ids and feature is in that plan's features list; for any other
\* id it is false, an ordinary boolean result, for every feature.
C4_GrantsExactly ==
    (out # NotRun /\ out.kind = "Granted")
    => (/\ out.granted \in BOOLEAN
        /\ ~C4_IsCatalogId(raw.id) => out.granted = FALSE
        /\ C4_IsCatalogId(raw.id) =>
              (out.granted <=> (/\ C4_Entry(raw.id).id = raw.id
                                /\ \E j \in 1..Len(C4_Entry(raw.id).features) :
                                      C4_Entry(raw.id).features[j] = raw.feature)))

\* An unknown plan was asked about a feature some plan has, and denied.
C4_Witness ==
    /\ out # NotRun /\ out.kind = "Granted"
    /\ raw.id = "nonexistent_plan" /\ raw.feature = "Lifetime updates"
    /\ out.granted = FALSE

(***************************************************************************)
(* Claims about the form and generate() (Spec).                            *)
(***************************************************************************)
\* The step starts a generate() call: a request is sent.
C5_Sends == Len(calls') = Len(calls) + 1

C5_Sent == calls'[Len(calls')].body

\* C5: every request generate sends has a body with the fields genre, bpm,
\* mood and theme, where bpm is a number, the form's bpm converted with
\* Number (240 for the typed text "240", 0 for the empty text), and genre,
\* mood and theme are the form's current values unchanged.
C5_BodyIsFormWithNumericBpm ==
    [][C5_Sends =>
        (/\ DOMAIN C5_Sent = {"genre", "bpm", "mood", "theme"}
         /\ C5_Sent.bpm.t = "number"
         /\ form.bpm.t = "number" => C5_Sent.bpm.n = form.bpm.n
         /\ form.bpm = JsStr(<<"2", "4", "0">>) => C5_Sent.bpm.n = 240
         /\ form.bpm = JsStr(<<"1", "e", "2">>) => C5_Sent.bpm = JsNum(100)
         /\ form.bpm = JsStr(Empty) => C5_Sent.bpm.n = 0
         /\ C5_Sent.genre = form.genre
         /\ C5_Sent.mood = form.mood
         /\ C5_Sent.theme = form.theme)]_vars

\* A request is in flight whose bpm was typed as the text "240" and sent as
\* the number 240.
C5_Witness ==
    /\ form.bpm = JsStr(<<"2", "4", "0">>)
    /\ \E i \in 1..Len(calls) :
          /\ calls[i].pc = "fetch"
          /\ calls[i].body.bpm = JsNum(240)
          /\ calls[i].body.genre = form.genre

C6_Trimmed(v) ==
    /\ v.t = "string"
    /\ v.s # Empty
    /\ v.s[1] \notin WhiteSpace
    /\ v.s[Len(v.s)] \notin WhiteSpace

\* C6: every request created for an HTTP call satisfies the data-model
\* invariant: bpm in [40, 240], and genre, mood and theme non-empty trimmed
\* strings, after any edits of the form followed by a submit.
C6_SentRequestsValid ==
    \A i \in 1..Len(calls) :
        /\ calls[i].body.bpm.t = "number" /\ calls[i].body.bpm.d = 0
        /\ calls[i].body.bpm.n >= 40 /\ calls[i].body.bpm.n <= 240
        /\ C6_Trimmed(calls[i].body.genre)
        /\ C6_Trimmed(calls[i].body.mood)
        /\ C6_Trimmed(calls[i].body.theme)

\* Call i finishes in this step.
C7_Finishes(i) == calls[i].pc # "done" /\ calls'[i].pc = "done"

\* The call ends in one of the three errors: the fetch rejected, the status
\* is not OK, the body is not JSON.
C7_Errored(c) ==
    \/ c.resp = NoResponse
    \/ c.resp.status < 200 \/ c.resp.status > 299
    \/ ~c.resp.parses

\* C7: on any error of a generate call (the fetch rejects, the status is
\* not OK, or the body does not parse as JSON) the output becomes the one
\* static failure string, with nothing of a response body in it.
C7_ErrorShowsStaticText ==
    [][\A i \in 1..Len(calls) :
          (C7_Finishes(i) /\ C7_Errored(calls[i])) => lyrics' = FailedToGenerate]_vars

\* Two calls have failed and the failure string is shown; one of them was
\* answered by the backend, with a status that is not OK.
C7_Witness ==
    /\ lyrics = FailedToGenerate
    /\ ~loading
    /\ Len(calls) = 2
    /\ calls[1].pc = "done" /\ calls[2].pc = "done"
    /\ Len(served) = 0
    /\ clock = 1

\* C8: when the endpoint answers OK with a body { lyrics, timestamp }, the
\* output becomes the lyrics, a blank line and the timestamp, in place of
\* the 'Generating...' placeholder.
C8_SuccessShowsLyricsAndTimestamp ==
    [][\A i \in 1..Len(calls) :
          (/\ C7_Finishes(i)
           /\ ~C7_Errored(calls[i])
           /\ calls[i].resp.data.lyrics.t = "string"
           /\ calls[i].resp.data.timestamp.t = "string")
          => (/\ lyrics' = calls[i].resp.data.lyrics.s \o <<"\n", "\n">>
                              \o calls[i].resp.data.timestamp.s
              /\ lyrics' # Generating)]_vars

\* The default form was submitted and its result is shown.
C8_Witness ==
    /\ Len(calls) = 1 /\ calls[1].pc = "done"
    /\ Len(served) = 1
    /\ lyrics = served[1].lyrics \o <<"\n", "\n", "T", "0">>
    /\ served[1].lyrics = HipHop \o <<"/">> \o Energetic \o <<"/">> \o Love \o <<"@", "9", "0">>

(***************************************************************************)
(* Claims about subscribe() (SpecSubscribe).                               *)
(***************************************************************************)
C9_Finishes(i) == subs[i].pc # "done" /\ subs'[i].pc = "done"

C9_Is2xx(resp) == resp.status >= 200 /\ resp.status <= 299

C9_HasUrl(resp) ==
    /\ resp.parses
    /\ resp.data.t = "object"
    /\ resp.data.url.t = "string"
    /\ resp.data.url.s # Empty

\* C9: subscribe navigates to the returned url only when the checkout
\* endpoint answers with a 2xx status and a body with a url; on a non-2xx
\* status or a failed request it does not navigate and reports 'Failed to
\* create checkout session'.
C9_NavigatesOnlyOnSuccess ==
    [][/\ location' # location =>
            \E i \in 1..Len(subs) :
               /\ C9_Finishes(i)
               /\ C9_Is2xx(subs[i].resp) /\ C9_HasUrl(subs[i].resp)
               /\ location' = subs[i].resp.data.url.s
       /\ \A i \in 1..Len(subs) :
            (C9_Finishes(i) /\ (subs[i].resp = NoResponse \/ ~C9_Is2xx(subs[i].resp)))
            => (/\ location' = location
                /\ alerts' = Append(alerts, FailedCheckout))]_vars

\* One call was answered 2xx with a url and navigated; another call failed
\* and was reported.
C9_Witness ==
    /\ location = PayUrl
    /\ alerts = <<FailedCheckout>>
    /\ Len(subs) = 2 /\ subs[1].pc = "done" /\ subs[2].pc = "done"

(***************************************************************************)
(* Claims about the loading flag of generate() (SpecLive).                 *)
(***************************************************************************)
\* The request of call i has been answered and the answer awaits processing.
C12_Answered(i) ==
    /\ i \in 1..Len(calls)
    /\ calls[i].pc = "fetch"
    /\ calls[i].resp # NoResponse

\* The promise call i awaits has settled: the response is in, or the body
\* it reads has arrived.
C12_Settled(i) ==
    /\ i \in 1..Len(calls)
    /\ \/ C12_Answered(i)
       \/ calls[i].pc = "json" /\ calls[i].bodyIn

\* Call i has gone on to read a body that has not arrived yet.
C12_AwaitsBody(i) ==
    /\ i \in 1..Len(calls)
    /\ calls[i].pc = "json" /\ ~calls[i].bodyIn

C12_Over(i) ==
    /\ i \in 1..Len(calls)
    /\ calls[i].pc = "done"
    /\ ~loading
    /\ lyrics # Generating

\* The most recent call, the only one that can be under way.
C12_Current == Len(calls)

\* C12: every generate call sets loading to true and the output to
\* 'Generating...' as it sends the request; once the request has settled,
\* with success or any failure, the call goes on: an answer with an OK
\* status leads to reading the body, and a status that is not OK or a body
\* that has arrived leads to the end of the call; when a call ends,
\* loading is false and the output is no longer 'Generating...'; loading is
\* never true when no call is under way, and only the most recent call is.
C12_LoadingFollowsCall ==
    /\ [][Len(calls') = Len(calls) + 1 =>
            (/\ loading' /\ lyrics' = Generating
             /\ calls'[Len(calls')].pc = "fetch")]_vars
    /\ [][\A i \in 1..Len(calls) :
            (calls[i].pc # "done" /\ calls'[i].pc = "done")
            => (~loading' /\ lyrics' # Generating)]_vars
    /\ [][\A i \in 1..Len(calls) :
            (calls[i].pc = "fetch" /\ calls'[i].pc = "json") => Ok(calls[i].resp)]_vars
    /\ [](loading => \E i \in 1..Len(calls) : calls[i].pc # "done")
    /\ [](\A i \in 1..Len(calls) : calls[i].pc # "done" => i = C12_Current)
    /\ C12_Settled(C12_Current) ~> (C12_AwaitsBody(C12_Current) \/ C12_Over(C12_Current))

\* A call was answered with success, has finished, and loading is false
\* with the result shown.
C12_Witness ==
    /\ Len(calls) = 1 /\ calls[1].pc = "done"
    /\ Len(served) = 1
    /\ ~loading
    /\ lyrics # Generating /\ lyrics # Empty /\ lyrics # FailedToGenerate

(***************************************************************************)
(* Claims about concurrent generate() calls (Spec).                        *)
(***************************************************************************)
C13_InFlight == {i \in 1..Len(calls) : calls[i].pc # "done"}

\* C13: at most one generation request is in flight at any time: a call in
\* flight keeps loading true, which disables the submit button, so it is
\* the most recently submitted one; when it finishes, the output becomes
\* its result or the failure text, also when Clear emptied the output
\* while it was in flight.
C13_OneRequestInFlight ==
    /\ [](Cardinality(C13_InFlight) <= 1)
    /\ [](\A i \in C13_InFlight : loading /\ i = Len(calls))
    /\ [][Len(calls') = Len(calls) + 1 => C13_InFlight = {}]_vars
    /\ [][\A i \in 1..Len(calls) :
            (calls[i].pc # "done" /\ calls'[i].pc = "done")
            => (/\ i = Len(calls)
                /\ \/ lyrics' = FailedToGenerate
                   \/ /\ calls[i].pc = "json"
                      /\ lyrics' = JsToString(calls[i].resp.data.lyrics) \o <<"\n", "\n">>
                                      \o JsToString(calls[i].resp.data.timestamp))]_vars

\* The second request is in flight, answered, after Clear emptied the
\* output; the first has finished.
C13_Witness ==
    /\ Len(calls) = 2
    /\ calls[1].pc = "done"
    /\ calls[2].pc = "json"
    /\ loading
    /\ lyrics = Empty

=============================================================================
